---- MODULE Spec2Model ----
(***************************************************************************)
(* State-machine model of the cruise-ship data extractor:                  *)
(*   - the fetch pipeline    (get-ships.js  + libs/ody.js)                  *)
(*   - the download pipeline (media downloader, main/downloadInBatches)    *)
(*                                                                         *)
(* Node runs one continuation at a time; the only interleaving points are  *)
(* the completions of I/O (an HTTP response, a browser session, a stream   *)
(* copy).  Every action below is one such completion together with all the *)
(* synchronous code and promise continuations that run after it.  What the *)
(* remote side answers (success, an error carrying code 401, any other     *)
(* error) is chosen by the environment.                                    *)
(***************************************************************************)
EXTENDS Integers, Sequences, FiniteSets, TLC

\* ------------------------------------------------------------------ bounds
MaxShips == 3        \* longest master listing
MaxC == 3            \* largest concurrency limit tried
MaxUnauthorized == 2 \* 401 answers the site gives during one run
MaxImages == 3       \* longest image list of a record of ships.jsonl
MaxRuns == 2         \* runs of the media downloader over the same files
MaxBack == 2         \* how far below 0 the loop index is followed

\* --------------------------------------------------------- program constants
DATA_SOURCE == "ody"
PrevEpoch == 0       \* timestamp given by an earlier run
RunEpoch == 1        \* timestamp given by this run (new Date())
NoShipId == -1       \* the default parameter value null of createJsonlRecord
DEFAULT_MAX_THREADS == 5
DEFAULT_MAX_DOWNLOADS == 10

VARIABLES
    prog,        \* which script runs: "fetch" or "download"
    envOk,       \* required environment variables are all set
    threadsEnv,  \* SCRAPERAPI_MAX_THREADS / MEDIA_MAX_THREADS of the environment
    maxThreads,  \* concurrency limit handed to the batch executor
    pc,          \* position of main
    exitCode,    \* -1 while running, else the code given to process.exit
    cookieFile,  \* .tmp/cookies.json: 0 = absent, n = holds session n
    cookies,     \* module variable cookies of ody.js: 0 = null, n = session n
    jar,         \* number of browser sessions acquired so far
    masterFile,  \* output/master.jsonl: sequence of lines
    shipsFile,   \* output/ships.jsonl: [exists, lines]
    shipsFile0,  \* output/ships.jsonl as it was when the run began
    ships,       \* masterData.ship (fetch) / loaded records (download)
    i,           \* loop index of the batch executor
    batch,       \* item positions (1-based) of the current window
    batches,     \* every window formed so far, in order
    w,           \* getService call chains: 0 = master call, k = ship k
    counters,    \* counters of processShipsInBatches
    started,     \* per item: how many times its worker was started
    results,     \* per item: results its worker returned
    tasks,       \* downloadTasks
    mediaFiles,  \* output/media: path -> "absent" | "partial" | "complete"
    dw,          \* download workers
    dcounters,   \* counters of downloadInBatches
    dout,        \* per download worker: how its fetch and its stream copy ended
    run,         \* number of the current run of the script
    mediaFiles0, \* output/media as it was when the current run began
    prevResults  \* per item of the previous run: the results of its worker

vars == <<prog, envOk, threadsEnv, maxThreads, pc, exitCode, cookieFile, cookies, jar,
          masterFile, shipsFile, shipsFile0, ships, i, batch, batches, w, counters,
          started, results, tasks, mediaFiles, dw, dcounters, dout, run,
          mediaFiles0, prevResults>>

fetchVars == <<cookieFile, cookies, jar, masterFile, w, counters>>
dlVars == <<tasks, mediaFiles, dw, dcounters, dout>>

Min(a, b) == IF a < b THEN a ELSE b
Max(a, b) == IF a > b THEN a ELSE b

\* ------------------------------------------------------------- JS helpers
\* JavaScript values are tagged, so that values of different types can be
\* compared: undefined, numbers, strings; objects are records
Undefined == [undefined |-> TRUE]
Num(n) == [num |-> n]
Str(s) == [str |-> s]

\* JavaScript truthiness of a ship id (a number, or null)
Truthy(x) == x # NoShipId /\ x # 0

\* slice that also takes the element at position b
slice_inclusive(n, a, b) ==
    LET from == IF a < 0 THEN Max(n + a, 0) ELSE Min(a, n)
        to   == IF b < 0 THEN Max(n + b, 0) ELSE Min(b + 1, n)
    IN  [j \in 1..Max(to - from, 0) |-> from + j]

\* Array.prototype.slice(a, b) on an array of length n, as the sequence of
\* the 1-based positions it selects
slice(n, a, b) ==
    LET from == IF a < 0 THEN Max(n + a, 0) ELSE Min(a, n)
        to   == IF b < 0 THEN Max(n + b, 0) ELSE Min(b, n)
    IN  [j \in 1..Max(to - from, 0) |-> from + j]

Range(s) == {s[j] : j \in DOMAIN s}

\* JSON.stringify of an object: a key whose value is undefined is left out
JSONstringify(obj) ==
    [key \in {f \in DOMAIN obj : obj[f] # Undefined} |-> obj[key]]

\* ------------------------------------------------- get-ships.js: records
createJsonlRecord(type, data, shipId) ==
    LET head == [timestamp |-> Num(RunEpoch), source |-> Str(DATA_SOURCE),
                 type |-> Str(type)]
        record == IF Truthy(shipId)
                  THEN head @@ [shipId |-> Num(shipId)] @@ [data |-> data]
                  ELSE head @@ [data |-> data]
    IN  JSONstringify(record)

\* a line of ships.jsonl as an earlier run left it
OldShipLine(id) ==
    [timestamp |-> Num(PrevEpoch), source |-> Str(DATA_SOURCE),
     type |-> Str("ship"), shipId |-> Num(id), data |-> [id |-> id]]

OldMasterLine ==
    [timestamp |-> Num(PrevEpoch), source |-> Str(DATA_SOURCE),
     type |-> Str("master"), data |-> [ship |-> <<[id |-> 1]>>]]

\* what the details endpoint answers for a ship
ShipDetails(id) == [id |-> id]

\* master listings the site may answer with
MasterListings ==
    {[j \in 1..n |-> [id |-> first + j - 1]] : first \in 0..1, n \in 0..MaxShips}

\* ------------------------------------------------------ libs/ody.js
IdleCall == [pc |-> "idle", args |-> [method |-> "get", filters |-> <<>>, decrypt |-> FALSE],
             depth |-> 0, outcomes |-> <<>>, refreshes |-> 0]

\* getService(url, "get", [], true) of fetchShipDetails
ShipArgs == [method |-> "get", filters |-> <<>>, decrypt |-> TRUE]
\* getService(masterUrl) of fetchMasterData: the defaults
MasterArgs == [method |-> "get", filters |-> <<>>, decrypt |-> FALSE]
\* getService(url, filters) of the catch block: filters lands in the method
\* parameter, filters and decrypt take their defaults.  How the runtime and
\* the site answer such a request is left to the environment.
RetryArgs(a) == [method |-> a.filters, filters |-> <<>>, decrypt |-> FALSE]

\* a test that never finds the cookie file
cookieFileExists_never(cf) == FALSE

\* fs.existsSync(cookiesFilePath)
cookieFileExists(cf) == cf # 0

\* Entering getService: getCookies runs first.  With a cookie file the
\* cookies are read from it and the request is sent; without one
\* refreshCookies is awaited.
getServiceEnter(c, a, cf) ==
    IF cookieFileExists(cf)
    THEN [c EXCEPT !.pc = "fetch", !.args = a, !.depth = @ + 1]
    ELSE [c EXCEPT !.pc = "gcRefresh", !.args = a, !.depth = @ + 1,
                   !.refreshes = @ + 1]

getCookiesValue(cf, cur) == IF cookieFileExists(cf) THEN cf ELSE cur

\* The value the outermost getService call returns once an attempt has
\* settled without a 401: the payload when the first attempt itself
\* succeeded; undefined when an error was caught, and also after a retry,
\* whose value the catch block does not return.
getServiceValue(c, o, payload) ==
    IF o = "ok" /\ c.depth = 1 THEN payload ELSE Undefined


\* ------------------------------------------------------ file system
appendFileSync_front(f, line) == [exists |-> TRUE, lines |-> <<line>> \o f.lines]

\* fs.appendFileSync(file, line + "\n"): the file is created when absent
appendFileSync(f, line) == [exists |-> TRUE, lines |-> Append(f.lines, line)]
unlinkSync(f) == [exists |-> FALSE, lines |-> <<>>]
AbsentFile == [exists |-> FALSE, lines |-> <<>>]

\* ------------------------------------------------------ initial states
FetchShipsFiles ==
    {AbsentFile, [exists |-> TRUE, lines |-> <<OldShipLine(1), OldShipLine(2)>>]}

\* parseInt(process.env.X) || dflt.  The setting is undefined (unset), a
\* text without leading digits, or the decimal text of an integer; parseInt
\* gives NaN for the first two, and NaN and 0 are falsy
parseIntOr(v, dflt) ==
    IF "num" \in DOMAIN v
    THEN IF v.num = 0 THEN dflt ELSE v.num
    ELSE dflt

\* the concurrency limit main hands to the batch executor
concurrencyLimit(p, v) ==
    IF p = "fetch" THEN parseIntOr(v, DEFAULT_MAX_THREADS)
                   ELSE parseIntOr(v, DEFAULT_MAX_DOWNLOADS)

\* settings of the environment: a positive number up to MaxC
PositiveSettings == {Num(n) : n \in 1..MaxC}
\* unset, not a number, zero, negative, positive
AnySettings == {Undefined, Str("many"), Num(0), Num(-1), Num(1)}

InitRun ==
    /\ envOk \in BOOLEAN
    /\ pc = "start"
    /\ shipsFile0 = shipsFile
    /\ run = 1
    /\ mediaFiles0 = mediaFiles
    /\ prevResults = <<>>
    /\ dout = <<>>
    /\ exitCode = -1
    /\ cookies = 0
    /\ ships = <<>>
    /\ i = 0
    /\ batch = <<>>
    /\ batches = <<>>
    /\ w = [k \in 0..MaxShips |-> IdleCall]
    /\ counters = [processed |-> 0, failed |-> 0]
    /\ started = <<>>
    /\ results = <<>>

InitCommon ==
    /\ threadsEnv \in PositiveSettings
    /\ maxThreads = concurrencyLimit(prog, threadsEnv)
    /\ InitRun

InitFetch ==
    /\ prog = "fetch"
    /\ shipsFile \in FetchShipsFiles
    \* an earlier run left its cookie file next to its output files
    /\ cookieFile = IF shipsFile.exists THEN 1 ELSE 0
    /\ jar = cookieFile
    /\ masterFile = IF shipsFile.exists THEN <<OldMasterLine>> ELSE <<>>
    /\ tasks = <<>>
    /\ mediaFiles = <<>>
    /\ dw = <<>>
    /\ dcounters = [completed |-> 0, failed |-> 0]

\* ------------------------------------------------------ continuations
Fatal_zero ==
    /\ pc' = "exit"
    /\ exitCode' = 0

\* process.exit(1) of the entry point's catch block
Fatal ==
    /\ pc' = "exit"
    /\ exitCode' = 1

shipListEmpty_never(v) == FALSE

\* masterResult.ship.length === 0
shipListEmpty(v) == Len(v.ship) = 0

\* fetchMasterData after getService(masterUrl) has settled
fetchMasterDataContinue(c, v, rejected) ==
    /\ w' = [w EXCEPT ![0] = [c EXCEPT !.pc = "done"]]
    /\ IF rejected \/ v = Undefined \/ "ship" \notin DOMAIN v
       THEN Fatal /\ ships' = ships
       ELSE IF shipListEmpty(v)
            THEN Fatal /\ ships' = ships
            ELSE ships' = v.ship /\ pc' = "save" /\ exitCode' = exitCode
    /\ UNCHANGED <<shipsFile, counters, results>>

\* processShip after fetchShipDetails has settled: the try block when the
\* call returned (whatever it returned), the catch block when it rejected
processShipContinue(k, c, v, rejected) ==
    /\ w' = [w EXCEPT ![k] = [c EXCEPT !.pc = "done"]]
    /\ IF rejected
       THEN /\ counters' = [counters EXCEPT !.failed = @ + 1]
            /\ results' = [results EXCEPT ![k] =
                   Append(@, [success |-> FALSE, shipId |-> ships[k].id,
                              error |-> "error.message"])]
            /\ shipsFile' = shipsFile
       ELSE /\ shipsFile' = appendFileSync(shipsFile,
                                createJsonlRecord("ship", v, ships[k].id))
            /\ counters' = [counters EXCEPT !.processed = @ + 1]
            /\ results' = [results EXCEPT ![k] =
                   Append(@, [success |-> TRUE, shipId |-> ships[k].id])]
    /\ UNCHANGED <<pc, exitCode, ships>>

getServiceSettled(k, c, v, rejected) ==
    IF k = 0 THEN fetchMasterDataContinue(c, v, rejected)
             ELSE processShipContinue(k, c, v, rejected)

\* ------------------------------------------------------ getService steps
\* number of requests of the run answered with 401 so far
Unauthorized(calls) ==
    Cardinality({p \in (DOMAIN calls) \X (1..(MaxUnauthorized + 1)) :
                    /\ p[2] \in DOMAIN calls[p[1]].outcomes
                    /\ calls[p[1]].outcomes[p[2]] = "e401"})

\* the awaited fetch (and the reading and parsing of its body) settles
FetchSettle(k, o, payload) ==
    /\ w[k].pc = "fetch"
    /\ o \in {"ok", "err", "e401"}
    /\ o = "e401" => Unauthorized(w) < MaxUnauthorized
    /\ LET c == [w[k] EXCEPT !.outcomes = Append(@, o)]
       IN  IF o = "e401"
           THEN /\ w' = [w EXCEPT ![k] =
                       [c EXCEPT !.pc = "refresh", !.refreshes = @ + 1]]
                /\ UNCHANGED <<pc, exitCode, ships, shipsFile, counters, results>>
           ELSE getServiceSettled(k, c, getServiceValue(c, o, payload), FALSE)
    /\ UNCHANGED <<prog, envOk, threadsEnv, maxThreads, shipsFile0, run, mediaFiles0, prevResults, cookieFile, cookies, jar, masterFile,
                   i, batch, batches, started>>
    /\ UNCHANGED dlVars

\* refreshCookies awaited by the catch block settles; when it succeeded the
\* catch block calls getService(url, filters)
RefreshSettle(k, ok) ==
    /\ w[k].pc = "refresh"
    /\ IF ok
       THEN /\ jar' = jar + 1
            /\ cookies' = getCookiesValue(cookieFile, jar + 1)
            /\ w' = [w EXCEPT ![k] =
                       getServiceEnter(@, RetryArgs(@.args), cookieFile)]
            /\ UNCHANGED <<pc, exitCode, ships, shipsFile, counters, results>>
       ELSE /\ getServiceSettled(k, w[k], Undefined, TRUE)
            /\ UNCHANGED <<jar, cookies>>
    /\ UNCHANGED <<prog, envOk, threadsEnv, maxThreads, shipsFile0, run, mediaFiles0, prevResults, cookieFile, masterFile,
                   i, batch, batches, started>>
    /\ UNCHANGED dlVars

\* refreshCookies awaited by getCookies (no cookie file) settles; getCookies
\* then writes the cookie file and the request is sent
GetCookiesSettle(k, ok) ==
    /\ w[k].pc = "gcRefresh"
    /\ IF ok
       THEN /\ jar' = jar + 1
            /\ cookies' = jar + 1
            /\ cookieFile' = jar + 1
            /\ w' = [w EXCEPT ![k] = [@ EXCEPT !.pc = "fetch"]]
            /\ UNCHANGED <<pc, exitCode, ships, shipsFile, counters, results>>
       ELSE /\ getServiceSettled(k, w[k], Undefined, TRUE)
            /\ UNCHANGED <<jar, cookies, cookieFile>>
    /\ UNCHANGED <<prog, envOk, threadsEnv, maxThreads, shipsFile0, run, mediaFiles0, prevResults, masterFile, i, batch, batches, started>>
    /\ UNCHANGED dlVars

MasterAnswers ==
    {[ship |-> l] : l \in MasterListings} \cup {[cruiseline |-> <<>>]}

MasterFetchSettle == \E o \in {"ok", "err", "e401"}, a \in MasterAnswers :
    FetchSettle(0, o, a)

ShipFetchSettle == \E k \in 1..Len(ships), o \in {"ok", "err", "e401"} :
    FetchSettle(k, o, ShipDetails(ships[k].id))

RefreshCookiesSettle == \E k \in 0..Len(ships), ok \in BOOLEAN : RefreshSettle(k, ok)

GetCookiesRefreshSettle == \E k \in 0..Len(ships), ok \in BOOLEAN : GetCookiesSettle(k, ok)


\* ------------------------------------------------------ get-ships.js: main
validateEnvironmentThrows_never(ok) == FALSE

\* validateEnvironment: throws when a required variable is not set
validateEnvironmentThrows(ok) == ~ok

FetchMainStart ==
    /\ prog = "fetch" /\ pc = "start"
    /\ IF validateEnvironmentThrows(envOk)
       THEN Fatal /\ UNCHANGED <<w, cookies>>
       ELSE /\ pc' = "fetchMaster"
            /\ exitCode' = exitCode
            /\ w' = [w EXCEPT ![0] = getServiceEnter(@, MasterArgs, cookieFile)]
            /\ cookies' = getCookiesValue(cookieFile, cookies)
    /\ UNCHANGED <<prog, envOk, threadsEnv, maxThreads, shipsFile0, run, mediaFiles0, prevResults, cookieFile, jar, masterFile, shipsFile,
                   ships, i, batch, batches, counters, started, results>>
    /\ UNCHANGED dlVars

saveMasterData ==
    /\ prog = "fetch" /\ pc = "save"
    /\ masterFile' = <<createJsonlRecord("master", [ship |-> ships], NoShipId)>>
    /\ pc' = "clear"
    /\ UNCHANGED <<prog, envOk, threadsEnv, maxThreads, shipsFile0, run, mediaFiles0, prevResults, exitCode, cookieFile, cookies, jar,
                   shipsFile, ships, i, batch, batches, w, counters, started, results>>
    /\ UNCHANGED dlVars

\* a step 2 that leaves the file of the earlier run in place
clearShipsFile_keep(f) == f

\* main, step 2: if (fs.existsSync(shipsFile)) fs.unlinkSync(shipsFile)
clearShipsFile(f) == IF f.exists THEN unlinkSync(f) ELSE f

\* main, step 2 and the entry of processShipsInBatches
ClearAndEnter ==
    /\ prog = "fetch" /\ pc = "clear"
    /\ shipsFile' = clearShipsFile(shipsFile)
    /\ counters' = [processed |-> 0, failed |-> 0]
    /\ i' = 0
    /\ started' = [k \in 1..Len(ships) |-> 0]
    /\ results' = [k \in 1..Len(ships) |-> <<>>]
    /\ pc' = "loop"
    /\ UNCHANGED <<prog, envOk, threadsEnv, maxThreads, shipsFile0, run, mediaFiles0, prevResults, exitCode, cookieFile, cookies, jar,
                   masterFile, ships, batch, batches, w>>
    /\ UNCHANGED dlVars

\* ------------------------------------------ get-ships.js: batch executor
\* an increment that steps over one ship between two windows
nextIndex_skip(idx, c) == idx + c + 1

\* i += maxThreads of the for statement
nextIndex(idx, c) == idx + c

\* a join that is satisfied by the first fulfilled promise
PromiseAll_any(b, workers) == \E j \in DOMAIN b : workers[b[j]].pc = "done"

\* await Promise.all(promises): every promise of the window is fulfilled
\* (no worker promise ever rejects: processShip catches everything)
PromiseAll(b, workers) == \A j \in DOMAIN b : workers[b[j]].pc = "done"

\* the for statement's test and, when it holds, one window: slice the
\* list and start processShip for every ship of the slice
processShipsLoop ==
    /\ prog = "fetch" /\ pc = "loop"
    /\ IF i < Len(ships)
       THEN LET b == slice(Len(ships), i, i + maxThreads)
            IN  /\ batch' = b
                /\ batches' = Append(batches, b)
                /\ started' = [k \in DOMAIN started |->
                                 IF k \in Range(b) THEN started[k] + 1 ELSE started[k]]
                /\ w' = [k \in DOMAIN w |->
                           IF k \in Range(b)
                           THEN getServiceEnter(w[k], ShipArgs, cookieFile)
                           ELSE w[k]]
                /\ cookies' = IF b # <<>> THEN getCookiesValue(cookieFile, cookies)
                                          ELSE cookies
                /\ pc' = "await"
       ELSE /\ pc' = "summary"
            /\ UNCHANGED <<batch, batches, started, w, cookies>>
    /\ UNCHANGED <<prog, envOk, threadsEnv, maxThreads, shipsFile0, run, mediaFiles0, prevResults, exitCode, cookieFile, jar, masterFile,
                   shipsFile, ships, i, counters, results>>
    /\ UNCHANGED dlVars

processShipsAwait ==
    /\ prog = "fetch" /\ pc = "await"
    /\ PromiseAll(batch, w)
    /\ nextIndex(i, maxThreads) >= -MaxBack
    /\ i' = nextIndex(i, maxThreads)
    /\ pc' = "loop"
    /\ UNCHANGED <<prog, envOk, threadsEnv, maxThreads, shipsFile0, run, mediaFiles0, prevResults, exitCode, cookieFile, cookies, jar,
                   masterFile, shipsFile, shipsFile0, ships, batch, batches, w, counters,
                   started, results>>
    /\ UNCHANGED dlVars

\* displaySummary and process.exit(0) of the entry point
ExitOk ==
    /\ pc = "summary"
    /\ pc' = "exit"
    /\ exitCode' = 0
    /\ UNCHANGED <<prog, envOk, threadsEnv, maxThreads, shipsFile0, run, mediaFiles0, prevResults, cookieFile, cookies, jar, masterFile,
                   shipsFile, ships, i, batch, batches, w, counters, started, results>>
    /\ UNCHANGED dlVars


\* ------------------------------------------ media downloader: inputs
GALLERY_IMAGE_TYPE == "Gallery"

\* an image entry of a ship record; every fourth one is not a gallery image
PoolImage(j) ==
    [path |-> <<"images", j>>,
     imageType |-> IF j % 4 = 0 THEN "Deck" ELSE GALLERY_IMAGE_TYPE]

\* a line of ships.jsonl holding the record of ship id with n images
DlRecord(id, n) ==
    [timestamp |-> Num(PrevEpoch), source |-> Str(DATA_SOURCE),
     type |-> Str("ship"), shipId |-> Num(id),
     data |-> [data |-> [images |-> [j \in 1..n |-> PoolImage(j)]]]]

\* a record with another image list
withImages(rec, imgs) == [rec EXCEPT !.data.data.images = imgs]

\* image lists the platform can return: the same image listed twice, two
\* images with one file name, a deck plan before the gallery images, and
\* an entry without a path
SpecialImageLists ==
    {<<PoolImage(1), PoolImage(2), PoolImage(1)>>,
     <<PoolImage(1), [path |-> <<"thumbs", 1>>, imageType |-> GALLERY_IMAGE_TYPE]>>,
     <<[path |-> <<"images", 0>>, imageType |-> "Deck"], PoolImage(1),
       [path |-> <<>>, imageType |-> GALLERY_IMAGE_TYPE]>>}

\* a line that is not JSON
GarbageLine == [garbage |-> TRUE]

DlShipsFiles ==
    {AbsentFile} \cup
    {[exists |-> TRUE, lines |-> <<DlRecord(1, n)>>] : n \in 0..MaxImages} \cup
    {[exists |-> TRUE, lines |-> <<withImages(DlRecord(1, 0), imgs)>>] :
        imgs \in SpecialImageLists} \cup
    {[exists |-> TRUE, lines |-> <<DlRecord(1, 2), DlRecord(2, 1)>>],
     [exists |-> TRUE, lines |-> <<GarbageLine, DlRecord(1, 1)>>]}

\* path.basename(image.path)
basename(path) == path[Len(path)]
\* path.join(mediaDir, `${shipId}`, filename)
joinPath(shipId, filename) == [dir |-> shipId, name |-> filename]

\* media directories an earlier run may have left
DlMediaDirs ==
    {<<>>,
     joinPath(Num(1), basename(PoolImage(2).path)) :> "complete",
     [fp \in {joinPath(Num(1), basename(PoolImage(j).path)) : j \in {1, 3}} |->
        IF fp.name = 1 THEN "complete" ELSE "partial"]}

existsSync_never(files, fp) == FALSE

\* fs.existsSync(filepath)
existsSync(files, fp) == fp \in DOMAIN files

\* the two revisions of download-media.js
DlProgs == {"download", "legacy"}

InitDownload ==
    /\ prog \in DlProgs
    /\ cookieFile = 0
    /\ jar = 0
    /\ masterFile = <<>>
    /\ shipsFile \in DlShipsFiles
    /\ mediaFiles \in DlMediaDirs
    /\ tasks = <<>>
    /\ dw = <<>>
    /\ dcounters = [completed |-> 0, failed |-> 0]

\* ------------------------------------------ media downloader: loading
\* JSON.parse of one line inside try/catch: null for a line that fails
JSONparse(line) == IF "garbage" \in DOMAIN line THEN [null |-> TRUE] ELSE line

loadShipsData(f) ==
    LET parsed == [j \in DOMAIN f.lines |-> JSONparse(f.lines[j])]
        notNull(x) == x # [null |-> TRUE]
    IN  SelectSeq(parsed, notNull)

\* ship.data?.data?.images || []
imagesOf(ship) ==
    IF "data" \in DOMAIN ship
    THEN IF "data" \in DOMAIN ship.data
         THEN IF "images" \in DOMAIN ship.data.data
              THEN ship.data.data.images ELSE <<>>
         ELSE <<>>
    ELSE <<>>

shipIdOf(ship) == IF "shipId" \in DOMAIN ship THEN ship.shipId ELSE Undefined

isGallery_any(img) == img.path # <<>>

\* img.path && img.imageType === GALLERY_IMAGE_TYPE
isGallery(img) == img.path # <<>> /\ img.imageType = GALLERY_IMAGE_TYPE

\* the tasks one ship record contributes: its gallery images, in order,
\* without those whose destination file exists
shipTasks(ship, files) ==
    LET galleryImages == SelectSeq(imagesOf(ship), isGallery)
        task(img) == [url |-> <<"baseUrl", img.path>>,
                      filepath |-> joinPath(shipIdOf(ship), basename(img.path)),
                      shipId |-> shipIdOf(ship),
                      filename |-> basename(img.path)]
        all == [j \in DOMAIN galleryImages |-> task(galleryImages[j])]
        missing(t) == ~existsSync(files, t.filepath)
    IN  SelectSeq(all, missing)

RECURSIVE collectDownloadTasks(_, _)
collectDownloadTasks(list, files) ==
    IF list = <<>> THEN <<>>
    ELSE shipTasks(Head(list), files) \o collectDownloadTasks(Tail(list), files)

\* ------------------------------------------ media downloader: main
DlMainStart ==
    /\ prog = "download" /\ pc = "start"
    /\ IF validateEnvironmentThrows(envOk)
       THEN Fatal
       ELSE pc' = "load" /\ exitCode' = exitCode
    /\ UNCHANGED <<prog, envOk, threadsEnv, maxThreads, shipsFile0, run, mediaFiles0, prevResults, shipsFile, ships, i, batch, batches,
                   started, results>>
    /\ UNCHANGED fetchVars
    /\ UNCHANGED dlVars

DlLoad ==
    /\ prog = "download" /\ pc = "load"
    /\ IF ~shipsFile.exists
       THEN Fatal /\ ships' = ships
       ELSE ships' = loadShipsData(shipsFile) /\ pc' = "collect" /\ exitCode' = exitCode
    /\ UNCHANGED <<prog, envOk, threadsEnv, maxThreads, shipsFile0, run, mediaFiles0, prevResults, shipsFile, i, batch, batches,
                   started, results>>
    /\ UNCHANGED fetchVars
    /\ UNCHANGED dlVars

\* older revision, processShips up to the task collection: ships.jsonl must
\* exist, and JSON.parse of its lines is not guarded
JSONparseThrows(f) ==
    \/ Len(f.lines) = 0
    \/ \E j \in DOMAIN f.lines : "garbage" \in DOMAIN f.lines[j]

LegacyStart ==
    /\ prog = "legacy" /\ pc = "start"
    /\ IF ~shipsFile.exists \/ JSONparseThrows(shipsFile)
       THEN Fatal /\ ships' = ships
       ELSE ships' = shipsFile.lines /\ pc' = "collect" /\ exitCode' = exitCode
    /\ UNCHANGED <<prog, envOk, threadsEnv, maxThreads, shipsFile0, run, mediaFiles0, prevResults, shipsFile, i, batch, batches,
                   started, results>>
    /\ UNCHANGED fetchVars
    /\ UNCHANGED dlVars

\* step 2 of main, its early return, and the entry of downloadInBatches
DlCollect ==
    /\ prog \in DlProgs /\ pc = "collect"
    /\ tasks' = collectDownloadTasks(ships, mediaFiles)
    /\ IF Len(tasks') = 0
       THEN pc' = "exit" /\ exitCode' = 0
       ELSE pc' = "loop" /\ exitCode' = exitCode
    /\ dcounters' = [completed |-> 0, failed |-> 0]
    /\ i' = 0
    /\ started' = [k \in 1..Len(tasks') |-> 0]
    /\ results' = [k \in 1..Len(tasks') |-> <<>>]
    /\ dw' = [k \in 1..Len(tasks') |-> "idle"]
    /\ dout' = [k \in 1..Len(tasks') |-> <<>>]
    /\ UNCHANGED <<prog, envOk, threadsEnv, maxThreads, shipsFile0, run, mediaFiles0, prevResults, shipsFile, ships, batch, batches,
                   mediaFiles>>
    /\ UNCHANGED fetchVars


\* ------------------------------------------ media downloader: batch executor
\* i += maxConcurrent of the for statement
dlNextIndex(idx, c) == idx + c

DlPromiseAll(b, workers) == \A j \in DOMAIN b : workers[b[j]] = "done"

\* the for statement's test and, when it holds, one window: slice the task
\* list and start downloadImage (its fetch) for every task of the slice
downloadLoop ==
    /\ prog \in DlProgs /\ pc = "loop"
    /\ IF i < Len(tasks)
       THEN LET b == slice(Len(tasks), i, i + maxThreads)
            IN  /\ batch' = b
                /\ batches' = Append(batches, b)
                /\ started' = [k \in DOMAIN started |->
                                 IF k \in Range(b) THEN started[k] + 1 ELSE started[k]]
                /\ dw' = [k \in DOMAIN dw |->
                            IF k \in Range(b) THEN "fetch" ELSE dw[k]]
                /\ pc' = "await"
       ELSE /\ pc' = "summary"
            /\ UNCHANGED <<batch, batches, started, dw>>
    /\ UNCHANGED <<prog, envOk, threadsEnv, maxThreads, shipsFile0, run, mediaFiles0, prevResults, exitCode, shipsFile, ships, i, results,
                   tasks, mediaFiles, dcounters, dout>>
    /\ UNCHANGED fetchVars

downloadAwait ==
    /\ prog \in DlProgs /\ pc = "await"
    /\ DlPromiseAll(batch, dw)
    /\ dlNextIndex(i, maxThreads) >= -MaxBack
    /\ i' = dlNextIndex(i, maxThreads)
    /\ pc' = "loop"
    /\ UNCHANGED <<prog, envOk, threadsEnv, maxThreads, shipsFile0, run, mediaFiles0, prevResults, exitCode, shipsFile, ships, batch,
                   batches, started, results>>
    /\ UNCHANGED fetchVars
    /\ UNCHANGED dlVars

\* ------------------------------------------ media downloader: item worker
downloadImageResult_ok(task, success) ==
    [success |-> TRUE, url |-> task.url, filepath |-> task.filepath]

\* what downloadImage resolves with: the return of its try block, or of its
\* catch block
downloadImageResult(task, success) ==
    IF success
    THEN [success |-> TRUE, url |-> task.url, filepath |-> task.filepath]
    ELSE [success |-> FALSE, url |-> task.url, filepath |-> task.filepath,
          error |-> "error.message"]

countResult_lost(c, success) ==
    IF success THEN [c EXCEPT !.completed = @ + 1] ELSE c

\* if (result.success) counters.completed++ else counters.failed++
countResult(c, success) ==
    IF success THEN [c EXCEPT !.completed = @ + 1]
               ELSE [c EXCEPT !.failed = @ + 1]

\* the callback of batch.map after downloadImage has returned its result
downloadResult(k, success) ==
    LET result == downloadImageResult(tasks[k], success)
    IN  /\ dw' = [dw EXCEPT ![k] = "done"]
        /\ results' = [results EXCEPT ![k] = Append(@, result)]
        /\ dcounters' = countResult(dcounters, result.success)

\* fs.createWriteStream(filepath): the file is created, or emptied
createWriteStream(files, fp) ==
    [p \in DOMAIN files \cup {fp} |-> IF p = fp THEN "partial" ELSE files[p]]

finishWrite_gone(files, fp) == [p \in DOMAIN files \ {fp} |-> files[p]]

\* the stream copy has ended: the file holds the whole body
finishWrite(files, fp) ==
    [p \in DOMAIN files \cup {fp} |-> IF p = fp THEN "complete" ELSE files[p]]

\* await fetch(url) settles: a 2xx response (the directory is ensured and
\* the stream copy starts), another status, a network error, or the
\* directory or the file cannot be created
DownloadFetchSettle == \E k \in DOMAIN dw, o \in {"ok", "notok", "neterr", "mkdirerr"} :
    /\ prog \in DlProgs
    /\ dw[k] = "fetch"
    \* the older revision does not check OD_BASE_URL: without it the url is
    \* `undefined/...` and fetch throws
    /\ (prog = "legacy" /\ ~envOk) => o = "neterr"
    /\ dout' = [dout EXCEPT ![k] = Append(@, o)]
    /\ IF o = "ok"
       THEN /\ dw' = [dw EXCEPT ![k] = "stream"]
            /\ mediaFiles' = createWriteStream(mediaFiles, tasks[k].filepath)
            /\ UNCHANGED <<results, dcounters>>
       ELSE /\ downloadResult(k, FALSE)
            /\ mediaFiles' = mediaFiles
    /\ UNCHANGED <<prog, envOk, threadsEnv, maxThreads, shipsFile0, run, mediaFiles0, prevResults, pc, exitCode, shipsFile, ships, i, batch,
                   batches, started, tasks>>
    /\ UNCHANGED fetchVars

\* await pipeline(...) settles
DownloadStreamSettle == \E k \in DOMAIN dw, ok \in BOOLEAN :
    /\ prog \in DlProgs
    /\ dw[k] = "stream"
    /\ dout' = [dout EXCEPT ![k] = Append(@, IF ok THEN "copied" ELSE "streamerr")]
    /\ downloadResult(k, ok)
    /\ mediaFiles' = IF ok THEN finishWrite(mediaFiles, tasks[k].filepath)
                           ELSE mediaFiles
    /\ UNCHANGED <<prog, envOk, threadsEnv, maxThreads, shipsFile0, run, mediaFiles0, prevResults, pc, exitCode, shipsFile, ships, i, batch,
                   batches, started, tasks>>
    /\ UNCHANGED fetchVars

\* ------------------------------------------ media downloader: next run
\* the operator starts the downloader again after a run that exited with
\* code 0: same ships.jsonl, same environment, the media directory as the
\* run left it
RunAgain ==
    /\ prog \in DlProgs /\ pc = "exit" /\ exitCode = 0
    /\ run < MaxRuns
    /\ run' = run + 1
    /\ mediaFiles0' = mediaFiles
    /\ prevResults' = results
    /\ pc' = "start"
    /\ exitCode' = -1
    /\ ships' = <<>>
    /\ i' = 0
    /\ batch' = <<>>
    /\ batches' = <<>>
    /\ started' = <<>>
    /\ results' = <<>>
    /\ tasks' = <<>>
    /\ dw' = <<>>
    /\ dout' = <<>>
    /\ dcounters' = [completed |-> 0, failed |-> 0]
    /\ UNCHANGED <<prog, envOk, threadsEnv, maxThreads, shipsFile0, shipsFile, mediaFiles>>
    /\ UNCHANGED fetchVars

\* ------------------------------------------------------ specification
Init == (InitFetch \/ InitDownload) /\ InitCommon

Next ==
    \/ FetchMainStart
    \/ MasterFetchSettle
    \/ ShipFetchSettle
    \/ RefreshCookiesSettle
    \/ GetCookiesRefreshSettle
    \/ saveMasterData
    \/ ClearAndEnter
    \/ processShipsLoop
    \/ processShipsAwait
    \/ ExitOk
    \/ DlMainStart
    \/ DlLoad
    \/ LegacyStart
    \/ DlCollect
    \/ downloadLoop
    \/ downloadAwait
    \/ DownloadFetchSettle
    \/ DownloadStreamSettle
    \/ RunAgain

Spec == Init /\ [][Next]_vars

\* the same program started with any setting of the concurrency variable
InitEnv ==
    /\ InitFetch \/ InitDownload
    /\ threadsEnv \in AnySettings
    /\ maxThreads = concurrencyLimit(prog, threadsEnv)
    /\ InitRun

SpecEnv == InitEnv /\ [][Next]_vars

TypeOK ==
    /\ prog \in {"fetch"} \cup DlProgs
    /\ run \in 1..MaxRuns
    /\ pc \in {"start", "fetchMaster", "save", "clear", "load", "collect",
               "loop", "await", "summary", "exit"}
    /\ exitCode \in {-1, 0, 1}
    /\ i \in Int


\* ====================================================== properties
\* number of items handed to the batch executor
NItems == IF prog = "fetch" THEN Len(ships) ELSE Len(tasks)

\* the item worker of item k has been started / has settled
Started(k) == started[k] > 0
Settled(k) == IF prog = "fetch" THEN w[k].pc = "done" ELSE dw[k] = "done"
InFlight == {k \in DOMAIN started : Started(k) /\ ~Settled(k)}

\* the batch executor has run to the end of its list
ExecutorReturned == pc = "summary"

Failed(k) == \E j \in DOMAIN results[k] : ~results[k][j].success

\* C1: both batch executors start the item worker exactly once per item (no
\* item skipped, none started twice) and every started worker produces
\* exactly one result, whatever succeeds or fails.
C1_ExactlyOnce ==
    /\ \A k \in DOMAIN started :
          /\ started[k] <= 1
          /\ Len(results[k]) <= started[k]
          /\ (Started(k) /\ Settled(k)) => Len(results[k]) = 1
    /\ ExecutorReturned =>
          /\ DOMAIN started = 1..NItems
          /\ \A k \in 1..NItems : started[k] = 1 /\ Len(results[k]) = 1

C1_Witness ==
    /\ prog = "fetch" /\ ExecutorReturned
    /\ NItems >= 3
    /\ \E k \in 1..NItems : Failed(k)
    /\ \E k \in 1..NItems : ~Failed(k)

\* C2: at most maxThreads item workers are started and not yet settled.
C2_ConcurrencyBound == Cardinality(InFlight) <= maxThreads

C2_Witness ==
    /\ prog = "download"
    /\ maxThreads = 2
    /\ NItems > maxThreads
    /\ Cardinality(InFlight) = maxThreads

\* C3: window barrier: while a worker of one window is unsettled no worker
\* of a later window has been started, also when workers of the earlier
\* window have failed.
C3_WindowBarrier ==
    \A a \in DOMAIN batches, b \in DOMAIN batches :
        a < b =>
            \A x \in Range(batches[a]), y \in Range(batches[b]) :
                Started(y) => Settled(x)

C3_Witness ==
    /\ prog = "fetch"
    /\ Len(batches) = 2
    /\ \E x \in Range(batches[1]) : Failed(x)
    /\ \E y \in Range(batches[2]) : Started(y) /\ ~Settled(y)

\* C4: the executor forms ceil(N/C) windows: consecutive slices of the list
\* in source order, disjoint, covering the list, each of size at most C and
\* all but the last of size exactly C.
C4_Windows ==
    /\ \A j \in DOMAIN batches :
          /\ Len(batches[j]) <= maxThreads
          /\ j < Len(batches) => Len(batches[j]) = maxThreads
          /\ batches[j] = [m \in 1..Len(batches[j]) |-> (j - 1) * maxThreads + m]
          /\ Len(batches[j]) >= 1
          /\ batches[j][Len(batches[j])] <= NItems
    /\ ExecutorReturned =>
          /\ Len(batches) = (NItems + maxThreads - 1) \div maxThreads
          /\ NItems > 0 => batches[Len(batches)][Len(batches[Len(batches)])] = NItems

C4_Witness ==
    /\ ExecutorReturned
    /\ NItems = 3 /\ maxThreads = 2
    /\ Len(batches) = 2
    /\ Len(batches[2]) = 1


\* ------------------------------------------------------ fetch path
ShipItems == IF prog = "fetch" THEN DOMAIN results ELSE {}

Last(q) == q[Len(q)]

\* the HTTP request of ship k failed: its last attempt did not succeed
RequestFailed(k) == w[k].outcomes # <<>> /\ Last(w[k].outcomes) # "ok"
RequestSucceeded(k) == w[k].outcomes # <<>> /\ Last(w[k].outcomes) = "ok"

FetchSettled(k) == w[k].pc = "done"

\* lines of ships.jsonl written by this run
RunLines == SelectSeq(shipsFile.lines, LAMBDA l : l.timestamp = Num(RunEpoch))

\* C5: a ship whose HTTP request failed gets a result with success = false
\* and is counted as failed, not as processed.
C5_FailedRequestIsFailedResult ==
    /\ \A k \in ShipItems :
          (FetchSettled(k) /\ RequestFailed(k)) =>
              (Len(results[k]) = 1 /\ ~results[k][1].success)
    /\ prog = "fetch" =>
          counters.processed <=
              Cardinality({k \in ShipItems : FetchSettled(k) /\ RequestSucceeded(k)})

\* C6: a ship whose first attempt failed with 401 and whose second attempt,
\* made after the session refresh, succeeded has the result success = true,
\* is counted as processed, and refreshCookies ran exactly once for it.
C6_RetrySucceeds ==
    \A k \in ShipItems :
        (FetchSettled(k) /\ w[k].outcomes = <<"e401", "ok">>) =>
            /\ results[k] = <<[success |-> TRUE, shipId |-> ships[k].id]>>
            /\ w[k].refreshes = 1
            /\ counters.processed >= 1

C6_Witness ==
    /\ prog = "fetch"
    /\ \E k \in ShipItems :
          /\ FetchSettled(k)
          /\ w[k].outcomes = <<"e401", "ok">>
          /\ counters.failed = 0

\* C7: one work item makes at most two HTTP attempts and at most one
\* session refresh; after a second 401 nothing more is attempted and the
\* item ends as a failed result.
C7_BoundedRetry ==
    \A k \in ShipItems :
        /\ Len(w[k].outcomes) <= 2
        /\ w[k].refreshes <= 1
        /\ (Len(w[k].outcomes) = 2 /\ Last(w[k].outcomes) = "e401") =>
               (FetchSettled(k) /\ Len(results[k]) = 1 /\ ~results[k][1].success)

\* C8: ships.jsonl holds a line of this run for an item if and only if the
\* item's fetch succeeded: one line per successful fetch, none for a failed
\* one.
C8_LineIffFetched ==
    prog = "fetch" =>
        /\ Len(RunLines) =
              Cardinality({k \in ShipItems : FetchSettled(k) /\ RequestSucceeded(k)})
        /\ Len(RunLines) = counters.processed
        /\ \A k \in ShipItems :
              (FetchSettled(k) /\ RequestFailed(k)) => ~results[k][1].success

\* C9: once the first item worker has started, ships.jsonl holds no line of
\* an earlier run; at the end of the run it holds only lines of this run.
C9_TruncateThenAppend ==
    (prog = "fetch" /\ (pc \in {"await", "summary"} \/ \E k \in ShipItems : Started(k))) =>
        \A j \in DOMAIN shipsFile.lines :
            /\ shipsFile.lines[j].timestamp = Num(RunEpoch)
            /\ shipsFile.lines[j] \notin Range(shipsFile0.lines)

C9_Witness ==
    /\ prog = "fetch" /\ ExecutorReturned
    /\ shipsFile0.exists /\ Len(shipsFile0.lines) = 2
    /\ Len(shipsFile.lines) = NItems
    /\ NItems >= 2

\* C10: every line appended for a listed ship is an object with type "ship"
\* and a shipId equal to the ship's id; when all N listed ships (distinct
\* ids) are fetched the file ends with N lines carrying N distinct shipId
\* values, processed = N and failed = 0.
C10_LinesCarryShipId ==
    prog = "fetch" =>
        /\ \A j \in DOMAIN RunLines :
              /\ RunLines[j].type = Str("ship")
              /\ "shipId" \in DOMAIN RunLines[j]
        /\ \A k \in ShipItems :
              (FetchSettled(k) /\ Len(results[k]) = 1 /\ results[k][1].success) =>
                  \E j \in DOMAIN RunLines :
                      /\ "shipId" \in DOMAIN RunLines[j]
                      /\ RunLines[j].shipId = Num(ships[k].id)
        /\ (ExecutorReturned /\ \A k \in ShipItems : w[k].outcomes = <<"ok">>) =>
              /\ Len(RunLines) = NItems
              /\ counters = [processed |-> NItems, failed |-> 0]
              /\ \A a \in DOMAIN RunLines, b \in DOMAIN RunLines :
                    a # b => ("shipId" \in DOMAIN RunLines[a]
                              /\ "shipId" \in DOMAIN RunLines[b]
                              /\ RunLines[a].shipId # RunLines[b].shipId)

\* ------------------------------------------------------ C11
\* the item workers that have settled in this run
SettledItems == {k \in DOMAIN started : Started(k) /\ Settled(k)}
\* processed (fetch) or completed (download), and failed
OkCount == IF prog = "fetch" THEN counters.processed ELSE dcounters.completed
FailCount == IF prog = "fetch" THEN counters.failed ELSE dcounters.failed

C11_Counts ==
    /\ OkCount = Cardinality({k \in SettledItems : ~Failed(k)})
    /\ FailCount = Cardinality({k \in SettledItems : Failed(k)})
    /\ OkCount + FailCount = Cardinality(SettledItems)
    /\ ExecutorReturned => OkCount + FailCount = NItems

C11_Step ==
    run' = run =>
        /\ OkCount' \in {OkCount, OkCount + 1}
        /\ FailCount' \in {FailCount, FailCount + 1}
        /\ (OkCount' + FailCount') - (OkCount + FailCount)
              = Cardinality(SettledItems') - Cardinality(SettledItems)

\* C11: in every state of a run, under every interleaving of the workers of
\* a window, the success counter plus the failed counter equals the number
\* of item workers settled so far; a step raises a counter by at most one,
\* and by exactly the number of workers it settles; when the executor has
\* returned the sum is the number of items it was given.
C11_Aggregation == []C11_Counts /\ [][C11_Step]_vars

\* two workers of one window have settled, one each way, a third is in flight
C11_Witness ==
    /\ prog = "download"
    /\ Cardinality(SettledItems) = 2
    /\ dcounters = [completed |-> 1, failed |-> 1]
    /\ \E k \in InFlight : k \in Range(batch)
    /\ SettledItems \subseteq Range(batch)

\* ------------------------------------------------------ C12
\* the task list of this run has been built
Collected ==
    /\ prog \in DlProgs
    /\ pc \in {"loop", "await", "summary"} \/ (pc = "exit" /\ exitCode = 0)

\* (record, image) positions of the gallery images of the loaded records
GalleryPairs ==
    {p \in UNION {{<<a, b>> : b \in DOMAIN imagesOf(ships[a])} : a \in DOMAIN ships} :
        LET img == imagesOf(ships[p[1]])[p[2]]
        IN  img.path # <<>> /\ img.imageType = GALLERY_IMAGE_TYPE}

ImageAt(p) == imagesOf(ships[p[1]])[p[2]]
\* <mediaDir>/<shipId>/<last segment of the image path>
Dest(p) == [dir |-> ships[p[1]].shipId, name |-> ImageAt(p).path[Len(ImageAt(p).path)]]

\* gallery images without a file at their destination when the run began
MissingPairs == {p \in GalleryPairs : Dest(p) \notin DOMAIN mediaFiles0}

\* order of the record file
Before(p, q) == p[1] < q[1] \/ (p[1] = q[1] /\ p[2] < q[2])
Rank(S, p) == 1 + Cardinality({q \in S : Before(q, p)})

\* C12: the task list holds exactly the gallery images whose destination had
\* no file at collection time, in the order of the record file; an image
\* whose destination file exists is not in the list.
C12_ResumeFilter ==
    Collected =>
        LET missing == MissingPairs
        IN  /\ Len(tasks) = Cardinality(missing)
            /\ \A p \in missing :
                  /\ tasks[Rank(missing, p)].filepath = Dest(p)
                  /\ tasks[Rank(missing, p)].url = <<"baseUrl", ImageAt(p).path>>
            /\ \A k \in DOMAIN tasks : tasks[k].filepath \notin DOMAIN mediaFiles0

\* files for the first and third of three gallery images: the second is the
\* only task
C12_Witness ==
    /\ Collected /\ run = 1
    /\ Cardinality(GalleryPairs) = 3
    /\ Cardinality(DOMAIN mediaFiles0) = 2
    /\ Len(tasks) = 1
    /\ tasks[1].filepath.name = 2

\* ------------------------------------------------------ C13
\* no download request has been issued in this run
NoRequests == \A k \in DOMAIN started : started[k] = 0

\* every download of the previous run ended with success = true
PrevAllSucceeded ==
    \A k \in DOMAIN prevResults :
        \A j \in DOMAIN prevResults[k] : prevResults[k][j].success

\* C13 as stated: a second run over the same ships.jsonl and the media
\* directory the first run left builds an empty task list and issues no
\* download request.
C13_Idempotence ==
    (run > 1 /\ Collected) => (tasks = <<>> /\ NoRequests)

\* C13 amended: it does so when every download of the first run succeeded.
C13_IdempotenceAfterSuccess ==
    (run > 1 /\ Collected /\ PrevAllSucceeded) => (tasks = <<>> /\ NoRequests)

C13_Witness ==
    /\ run = 2 /\ Collected
    /\ Len(prevResults) >= 2
    /\ PrevAllSucceeded
    /\ tasks = <<>>

\* ------------------------------------------------------ C14
\* workers whose request is started by this step
StartedNow == {k \in DOMAIN started' :
                  k \in DOMAIN started /\ started'[k] > started[k]}
\* workers whose write stream is opened by this step
OpenedNow == {k \in DOMAIN dw' : k \in DOMAIN dw /\ dw[k] = "fetch" /\ dw'[k] = "stream"}

C14_Step ==
    prog \in DlProgs =>
        /\ \A k \in StartedNow : tasks[k].filepath \notin DOMAIN mediaFiles
        /\ \A k \in OpenedNow : tasks[k].filepath \notin DOMAIN mediaFiles

\* C14: no request is started for an item whose destination holds a file at
\* that moment, whatever the file's content, and no write stream is opened
\* over an existing file.
C14_NoRefetchNoOverwrite == [][C14_Step]_vars

\* ------------------------------------------------------ C15
\* items of the previous run whose download ended as a failed result
PrevFailed ==
    {k \in DOMAIN prevResults :
        \E j \in DOMAIN prevResults[k] : ~prevResults[k][j].success}

\* C15: an item whose download failed in one run is in the task list of the
\* next run over the unchanged listing.
C15_FailedIsRetried ==
    (run > 1 /\ Collected) =>
        \A k \in PrevFailed :
            \E t \in DOMAIN tasks :
                /\ tasks[t].filepath = prevResults[k][1].filepath
                /\ tasks[t].url = prevResults[k][1].url

\* ------------------------------------------------------ C16
FailureOutcomes == {"notok", "neterr", "mkdirerr", "streamerr"}
\* downloadImage of item k has ended on a failure
DownloadFailed(k) == dout[k] # <<>> /\ Last(dout[k]) \in FailureOutcomes

\* C16: a download that fails (status, network, directory or file error)
\* settles its worker with one result that has success = false and the
\* error message, and adds one to failed; the run is not aborted, and when
\* the executor returns every task of the list has been attempted.
C16_DownloadNeverRejects ==
    prog \in DlProgs =>
        /\ \A k \in DOMAIN dout :
              DownloadFailed(k) =>
                  /\ dw[k] = "done"
                  /\ Len(results[k]) = 1
                  /\ ~results[k][1].success
                  /\ "error" \in DOMAIN results[k][1]
        /\ dcounters.failed = Cardinality({k \in DOMAIN dout : DownloadFailed(k)})
        /\ (\E k \in DOMAIN dout : DownloadFailed(k)) => exitCode # 1
        /\ ExecutorReturned => \A k \in DOMAIN tasks : started[k] = 1

\* the first window's download failed and a later window's succeeded
C16_Witness ==
    /\ prog \in DlProgs /\ ExecutorReturned
    /\ Len(batches) >= 2
    /\ \E k \in Range(batches[1]) : DownloadFailed(k)
    /\ dout[Len(tasks)] = <<"ok", "copied">>
    /\ dcounters.failed >= 1 /\ dcounters.completed >= 1

\* ------------------------------------------------------ C17
\* gallery images whose destination held a file when the run began
SkippedPairs == {p \in GalleryPairs : Dest(p) \in DOMAIN mediaFiles0}

\* C17: with T gallery images of which S have a file at their destination,
\* T - S downloads are attempted, no download is attempted for a skipped
\* image, and at the end of the run completed + failed = T - S.
C17_SkipAccounting ==
    Collected =>
        LET skipped == SkippedPairs
            T == Cardinality(GalleryPairs)
            S == Cardinality(skipped)
        IN  /\ Len(tasks) = T - S
            /\ Cardinality({k \in DOMAIN started : Started(k)}) <= T - S
            /\ \A p \in skipped :
                  \A k \in DOMAIN tasks : Started(k) => tasks[k].filepath # Dest(p)
            /\ dcounters.completed + dcounters.failed <= T - S
            /\ ExecutorReturned =>
                  /\ \A k \in DOMAIN tasks : started[k] = 1
                  /\ dcounters.completed + dcounters.failed = T - S

\* three gallery images, one skipped, two attempted
C17_Witness ==
    /\ Collected /\ ExecutorReturned
    /\ Cardinality(GalleryPairs) = 3
    /\ Cardinality(SkippedPairs) = 1
    /\ dcounters.completed + dcounters.failed = 2
    /\ dcounters.completed >= 1

\* ------------------------------------------------------ C18
\* download workers that hold an open write stream on their destination
DlWriting == {k \in DOMAIN dw : dw[k] = "stream"}

\* C18: two download workers in flight at the same time never write to the
\* same destination path, also for listings that repeat an image or a file
\* name.
C18_DisjointDestinations ==
    prog \in DlProgs =>
        \A a \in DlWriting, b \in DlWriting :
            a # b => tasks[a].filepath # tasks[b].filepath

\* ------------------------------------------------------ C19
\* the batch executor was entered and went through its whole list
RanToEnd ==
    /\ NItems > 0
    /\ DOMAIN started = 1..NItems
    /\ \A k \in 1..NItems : started[k] = 1 /\ Settled(k)

\* the conditions under which main throws, or the older revision exits, at
\* top level: configuration missing, ships.jsonl missing or (older revision)
\* not parseable, no master listing with ships received
FatalError ==
    CASE prog = "fetch" -> ~envOk \/ ships = <<>>
      [] prog = "download" -> ~envOk \/ ~shipsFile.exists
      [] prog = "legacy" -> ~shipsFile.exists \/ JSONparseThrows(shipsFile)

\* C19: a finished run has exit code 0 when the batch executor went through
\* its list, whatever failed, or when the download task list was empty; it
\* has exit code 1 exactly when a fatal top-level error occurred.
C19_ExitCodes ==
    /\ pc # "exit" => exitCode = -1
    /\ pc = "exit" =>
          /\ exitCode \in {0, 1}
          /\ exitCode = 1 <=> FatalError
          /\ exitCode = 0 <=> (RanToEnd \/ (prog \in DlProgs /\ ~FatalError /\ tasks = <<>>))

\* every download of the run failed; exit code 0
C19_Witness ==
    /\ prog \in DlProgs /\ pc = "exit" /\ exitCode = 0
    /\ NItems >= 2
    /\ dcounters = [completed |-> 0, failed |-> NItems]

\* ------------------------------------------------------ C20
\* no item worker of the fetch pipeline has left its initial state
NoFetchWorker == \A k \in DOMAIN w : k # 0 => w[k] = IdleCall

\* C20: in a run whose required configuration is missing, whose ships.jsonl
\* is missing (download pipeline), or that has received no master listing
\* with ships (fetch pipeline), no item worker is ever started; a run that
\* ends with exit code 1 has started none.
C20_FatalBeforeBatches ==
    /\ (prog \in {"fetch", "download"} /\ ~envOk) => (NoRequests /\ NoFetchWorker)
    /\ (prog \in DlProgs /\ ~shipsFile.exists) => NoRequests
    /\ (prog = "fetch" /\ ships = <<>>) => (NoRequests /\ NoFetchWorker)
    /\ exitCode = 1 => (NoRequests /\ batches = <<>>)

\* the master listing arrived with zero ships: exit code 1, nothing started
C20_Witness ==
    /\ prog = "fetch" /\ envOk
    /\ RequestSucceeded(0)
    /\ ships = <<>>
    /\ pc = "exit" /\ exitCode = 1
    /\ NoRequests

\* ------------------------------------------------------ C21
\* the line is JSON text
Parses(line) == "garbage" \notin DOMAIN line

\* the run has read ships.jsonl (the file exists and, where the environment
\* is validated, it was complete)
HasLoaded ==
    /\ prog \in DlProgs
    /\ shipsFile.exists
    /\ prog = "download" => envOk
    /\ pc \notin {"start", "load"}

\* C21: reading ships.jsonl skips every line that is not JSON, returns the
\* lines that are JSON in file order, and never aborts the run because of
\* an unparseable line.
C21_MalformedLinesSkipped ==
    HasLoaded =>
        /\ exitCode # 1
        /\ ships = SelectSeq(shipsFile.lines, Parses)

\* ------------------------------------------------------ C22
\* getService call chains that are awaiting refreshCookies
Refreshing == {k \in DOMAIN w : w[k].pc \in {"refresh", "gcRefresh"}}

\* C22: at most one refreshCookies is in flight at any moment, also when
\* several workers of one window are answered with 401 together.
C22_SingleFlightRefresh == Cardinality(Refreshing) <= 1

\* ------------------------------------------------------ C23
\* the window (position in batches) that holds item k
WindowOf(k) == CHOOSE b \in DOMAIN batches : k \in Range(batches[b])

\* the item a line of this run was written for: the ship with the line's
\* shipId, or the ship with id 0 for a line without one
ItemOfLine(l) ==
    CHOOSE k \in DOMAIN ships :
        IF "shipId" \in DOMAIN l THEN l.shipId = Num(ships[k].id)
                                 ELSE ships[k].id = 0

\* C23: of two lines written to ships.jsonl in one run, the line of an item
\* of an earlier window precedes the line of an item of a later window;
\* lines of one window are in the order in which their workers settled.
C23_FileOrderByWindow ==
    prog = "fetch" =>
        \A a \in DOMAIN RunLines, b \in DOMAIN RunLines :
            a < b => WindowOf(ItemOfLine(RunLines[a])) <= WindowOf(ItemOfLine(RunLines[b]))

\* two windows; the lines of the first window are not in source order
C23_Witness ==
    /\ prog = "fetch" /\ ExecutorReturned
    /\ Len(batches) = 2 /\ Len(RunLines) = 3
    /\ ItemOfLine(RunLines[1]) = 2
    /\ ItemOfLine(RunLines[2]) = 1
    /\ ItemOfLine(RunLines[3]) = 3

\* ------------------------------------------------------ C24
\* the arguments of the first attempt of call chain k
FirstArgs(k) == IF k = 0 THEN MasterArgs ELSE ShipArgs

\* C24: the request sent again after a session refresh has the method, the
\* filters and the decrypt mode of the first attempt.
C24_RetrySameRequest ==
    prog = "fetch" =>
        \A k \in DOMAIN w : w[k].depth >= 2 => w[k].args = FirstArgs(k)

\* ------------------------------------------------------ C25
\* call chains whose request is sent by this step (getHeaders is called)
SentNow == {k \in DOMAIN w : w[k].pc # "fetch" /\ w'[k].pc = "fetch"}

\* a request is sent with the module variable cookies as this step leaves
\* it; jar is the number of the session acquired last
C25_Step ==
    prog = "fetch" => \A k \in SentNow : cookies' = jar'

\* C25: the request sent again after a session refresh, and every request
\* sent later in the run, carries the cookies that the refresh obtained and
\* not the cookies cached before it.
C25_RetryUsesRefreshedCookies == [][C25_Step]_vars

\* ------------------------------------------------------ C26
\* the request of ship k was answered with 401, sent again, and the last
\* attempt succeeded
RetrySucceeded(k) ==
    /\ FetchSettled(k)
    /\ Len(w[k].outcomes) >= 2
    /\ Last(w[k].outcomes) = "ok"

\* C26: when the attempt made after a session refresh succeeds, the line
\* written for the ship carries the payload of that attempt in its data
\* field.
C26_RetryPayloadWritten ==
    prog = "fetch" =>
        \A k \in ShipItems :
            RetrySucceeded(k) =>
                \E j \in DOMAIN RunLines :
                    /\ ItemOfLine(RunLines[j]) = k
                    /\ "data" \in DOMAIN RunLines[j]
                    /\ RunLines[j].data = ShipDetails(ships[k].id)

\* ------------------------------------------------------ C27
\* C27: whatever the concurrency variable of the environment holds (unset,
\* not a number, zero, negative, positive), the limit the batch loop works
\* with is a positive integer.
C27_PositiveLimit == pc \in {"loop", "await"} => maxThreads >= 1

\* ------------------------------------------------------ C28
\* output/master.jsonl as the earlier run left it
OldMasterFile == IF shipsFile0.exists THEN <<OldMasterLine>> ELSE <<>>

\* C28: while the fetch pipeline has not received a master listing with at
\* least one ship, and after it has ended without one, ships.jsonl and
\* master.jsonl are as the previous run left them.
C28_FilesKeptOnMasterFailure ==
    (prog = "fetch" /\ ships = <<>>) =>
        /\ shipsFile = shipsFile0
        /\ masterFile = OldMasterFile

\* the master listing came back empty and the run has ended: both files of
\* the previous run are in place
C28_Witness ==
    /\ prog = "fetch" /\ pc = "exit" /\ exitCode = 1
    /\ RequestSucceeded(0)
    /\ ships = <<>>
    /\ shipsFile0.exists
    /\ Len(shipsFile.lines) = 2
    /\ masterFile = <<OldMasterLine>>

\* ------------------------------------------------------ C29
\* items of the previous run whose download returned success = true
PrevCompleted ==
    {k \in DOMAIN prevResults :
        \E j \in DOMAIN prevResults[k] : prevResults[k][j].success}

\* C29: when downloadImage has returned success = true a file exists at the
\* destination path; an item completed in one run is therefore not in the
\* task list of a later run over the same listing (no file is removed).
C29_CompletedHasFile ==
    prog \in DlProgs =>
        /\ \A k \in DOMAIN results :
              \A j \in DOMAIN results[k] :
                  results[k][j].success => results[k][j].filepath \in DOMAIN mediaFiles
        /\ \A k \in PrevCompleted :
              /\ prevResults[k][1].filepath \in DOMAIN mediaFiles
              /\ \A t \in DOMAIN tasks : tasks[t].filepath # prevResults[k][1].filepath

\* the second run has built its task list: the image completed by the first
\* run is not in it, the image that failed is
C29_Witness ==
    /\ run = 2 /\ Collected
    /\ PrevCompleted # {}
    /\ Len(tasks) >= 1
    /\ Len(tasks) < Len(prevResults)

\* ------------------------------------------------------ C30
\* (record, image) positions of all image entries of the loaded records
ImagePairs == UNION {{<<a, b>> : b \in DOMAIN imagesOf(ships[a])} : a \in DOMAIN ships}

\* C30: every task comes from an image entry that has a path and the type
\* "Gallery"; its url is the base url followed by that path and its
\* destination is <media>/<shipId of the record>/<last segment of the path>;
\* an entry of another type, or without a path, has no task, hence no
\* request.
C30_TasksFromGalleryImages ==
    Collected =>
        LET pairs == ImagePairs
        IN  /\ \A t \in DOMAIN tasks :
                  \E p \in pairs :
                      LET img == ImageAt(p)
                      IN  /\ img.path # <<>>
                          /\ img.imageType = "Gallery"
                          /\ tasks[t].url = <<"baseUrl", img.path>>
                          /\ tasks[t].filepath =
                                [dir |-> ships[p[1]].shipId, name |-> img.path[Len(img.path)]]
            /\ \A p \in pairs :
                  (ImageAt(p).path = <<>> \/ ImageAt(p).imageType # "Gallery") =>
                      \A t \in DOMAIN tasks : tasks[t].url # <<"baseUrl", ImageAt(p).path>>
            /\ DOMAIN dw = DOMAIN tasks

\* a deck plan, a gallery image and an entry without a path: one task
C30_Witness ==
    /\ Collected /\ ExecutorReturned
    /\ \E p \in ImagePairs : ImageAt(p).imageType = "Deck"
    /\ \E p \in ImagePairs : ImageAt(p).path = <<>>
    /\ Len(tasks) = 1
    /\ tasks[1].url = <<"baseUrl", <<"images", 1>>>>
    /\ tasks[1].filepath = [dir |-> Num(1), name |-> 1]

====
